---- MODULE Spec2Model ----
(***************************************************************************)
(* Model of tdp-tl: the two voxel stores (MonotonicVoxel, RangeSetVoxel),  *)
(* the bounding box, the mesh extractor (to_model / Model::add_face) and   *)
(* the material injector (inject_at).                                      *)
(***************************************************************************)
EXTENDS Integers, Sequences, FiniteSets, Bags, TLC

\* ------------------------------------------------------------------ bounds
MaxZ == 3          \* add: z runs over 0..MaxZ
MaxAdds == 6       \* add calls per behaviour
ColMaxZ == 4       \* one column: z runs over 0..ColMaxZ
ColMaxAdds == 5    \* one column: add calls per behaviour
MeshMaxZ == 2      \* mesh extraction: z runs over 0..MeshMaxZ
MeshMaxAdds == 3   \* mesh extraction: add calls per behaviour
InjMaxAdds == 1    \* injection: add calls made around the inject_at calls
MaxN == 3          \* injection: largest budget n
PriorMaxZ == 2     \* injection into a filled column: z runs over 0..PriorMaxZ
PriorMaxAdds == 3  \* injection into a filled column: add calls before it
PriorMaxN == 2     \* injection into a filled column: largest budget n
SmallDepth == 3    \* injection with a short reach: depth of the seed entry
DepthMaxN == 7     \* injection with a short reach: largest budget n
MaxLines == 2      \* toolpath: lines read per behaviour
GMaxX == 2         \* toolpath: largest X argument, in steps of step_size
GMaxE == 2         \* toolpath: largest E argument, in units of 1/K
MaxFaces == 3      \* Model: add_face calls per behaviour
FarMaxE == 5       \* toolpath far from the origin: largest E argument

\* arguments of add: the column (0, 0) and one voxel of a column that
\* differs from it in x and in y
Coords == {<<0, 0, z>> : z \in 0..MaxZ} \cup {<<1, 0 - 1, 0>>}

\* arguments of add before a mesh extraction: three neighbouring columns,
\* the column (0, 0) up to MeshMaxZ and its neighbours over two layers
MeshCols == {<<0, 0>>, <<1, 0>>, <<0, 0 - 1>>}
MeshCoords ==
    {<<0, 0, z>> : z \in 0..MeshMaxZ}
        \cup {<<k[1], k[2], z>> : k \in MeshCols, z \in 0..1}

\* arguments of inject_at: a one-layer slab and a three-layer slab around the
\* seed, a seed one above its slab, a seed two above its slab
Scenarios ==
    { [zlow |-> 0, zhigh |-> 0, pos0 |-> <<0, 0, 0>>],
      [zlow |-> 0 - 1, zhigh |-> 1, pos0 |-> <<0, 0, 0>>],
      [zlow |-> 0, zhigh |-> 0, pos0 |-> <<0, 0, 1>>],
      [zlow |-> 0, zhigh |-> 0, pos0 |-> <<0, 0, 2>>] }
InjCoords == {<<0, 0, 0>>, <<1, 0, 0>>}

\* arguments of an inject_at call whose seed is pushed with depth SmallDepth:
\* a one-layer slab with the seed in it, and one with the seed one above it
DepthScenarios ==
    { [zlow |-> 0, zhigh |-> 0, pos0 |-> <<0, 0, 0>>],
      [zlow |-> 0, zhigh |-> 0, pos0 |-> <<0, 0, 1>>] }

\* arguments of an inject_at call made after adds into the column (0, 0): a
\* seed at the foot of the column, and a seed two above its slab
PriorScenarios ==
    { [zlow |-> 0, zhigh |-> PriorMaxZ, pos0 |-> <<0, 0, 0>>],
      [zlow |-> 0, zhigh |-> 0, pos0 |-> <<0, 0, 2>>] }

VARIABLES
    mv,         \* MonotonicVoxel { ranges, bb }
    rv,         \* RangeSetVoxel { ranges, bb }
    hist,       \* the add calls made so far, with their results
    modelM,     \* Model returned by the last MonotonicVoxel::to_model
    modelR,     \* Model returned by the last RangeSetVoxel::to_model
    modelAt,    \* number of add calls made before the last to_model (-1: none)
    panicked,   \* an assertion of to_model failed
    pc,         \* "idle", or "loop" inside inject_at
    variant,    \* variant of the store v handed to inject_at
    candidates, \* inject_at: the BinaryHeap<HeapItem>, as a bag
    visited,    \* inject_at: the visited MonotonicVoxel
    n,          \* inject_at: remaining budget
    call,       \* inject_at: arguments of the current or last call
    inserted,   \* inject_at: positions whose v.add returned true, in order
    pops,       \* inject_at: bag of what the passes of the loop of this call did
    gpos,       \* generate_gcode: pos, in hundredths of a millimetre
    ge,         \* generate_gcode: e, in units of 1/K millimetre
    lines,      \* generate_gcode: the lines read so far
    seg         \* generate_gcode: the extruding move in progress

storeVars == <<mv, rv, hist>>
meshVars == <<modelM, modelR, modelAt, panicked>>
injVars == <<pc, variant, candidates, visited, n, call, inserted, pops>>
gcVars == <<gpos, ge, lines, seg>>
vars == <<storeVars, meshVars, injVars, gcVars>>

\* ------------------------------------------------------------ VoxelIdx
\* derived Ord on VoxelIdx { idx: [i32; 3] }: lexicographic
LexLt(a, b) ==
    \/ a[1] < b[1]
    \/ a[1] = b[1] /\ a[2] < b[2]
    \/ a[1] = b[1] /\ a[2] = b[2] /\ a[3] < b[3]

LexLe(a, b) == a = b \/ LexLt(a, b)

Min2(a, b) == IF a < b THEN a ELSE b
Max2(a, b) == IF a > b THEN a ELSE b

\* bb_min with the last component taken from bb_max
bb_min_mut(self, other) ==
    <<Min2(self[1], other[1]), Min2(self[2], other[2]), Max2(self[3], other[3])>>

bb_min(self, other) ==
    <<Min2(self[1], other[1]), Min2(self[2], other[2]), Min2(self[3], other[3])>>

bb_max(self, other) ==
    <<Max2(self[1], other[1]), Max2(self[2], other[2]), Max2(self[3], other[3])>>

VAdd(a, b) == <<a[1] + b[1], a[2] + b[2], a[3] + b[3]>>
VSub(a, b) == <<a[1] - b[1], a[2] - b[2], a[3] - b[3]>>

\* ---------------------------------------------------------- BoundingBox
\* #[derive(Default)]: all-zero bounds, count 0
BoundingBoxDefault ==
    [bound_min |-> <<0, 0, 0>>, bound_max |-> <<0, 0, 0>>, count |-> 0]

BoundingBoxAdd(bb, coord) ==
    IF bb.count = 0
    THEN [bound_min |-> coord, bound_max |-> coord, count |-> 1]
    ELSE [bound_min |-> bb_min(coord, bb.bound_min),
          bound_max |-> bb_max(coord, bb.bound_max),
          count |-> bb.count + 1]

\* ------------------------------------------------------- MonotonicVoxel
\* ranges: BTreeMap<[i32; 2], Vec<Range<i32>>>, a function whose domain is
\* the set of keys present; a run is [start |-> s, end |-> e] for s..e
MonotonicVoxelDefault == [ranges |-> << >>, bb |-> BoundingBoxDefault]

\* Range::contains with an inclusive end
RangeContains_mut(r, z) == r.start <= z /\ z <= r.end

RangeContains(r, z) == r.start <= z /\ z < r.end

MonoOccupied(s, coord) ==
    LET key == <<coord[1], coord[2]>> IN
    /\ key \in DOMAIN s.ranges
    /\ \E i \in 1..Len(s.ranges[key]) : RangeContains(s.ranges[key][i], coord[3])

\* blocks() counting runs where it should count their lengths
SumRunLengths_mut(rs) == Len(rs)

RECURSIVE SumRunLengths(_)
SumRunLengths(rs) ==
    IF rs = << >> THEN 0
    ELSE (Head(rs).end - Head(rs).start) + SumRunLengths(Tail(rs))

RECURSIVE MonoBlocksOver(_, _)
MonoBlocksOver(s, keys) ==
    IF keys = {} THEN 0
    ELSE LET k == CHOOSE k \in keys : TRUE
         IN SumRunLengths(s.ranges[k]) + MonoBlocksOver(s, keys \ {k})

MonoBlocks(s) == MonoBlocksOver(s, DOMAIN s.ranges)

\* the assert!(range.start < range.end) inside blocks()
MonoBlocksAssertOk(s) ==
    \A k \in DOMAIN s.ranges :
        \A i \in 1..Len(s.ranges[k]) : s.ranges[k][i].start < s.ranges[k][i].end

RECURSIVE MonoRangesOver(_, _)
MonoRangesOver(s, keys) ==
    IF keys = {} THEN 0
    ELSE LET k == CHOOSE k \in keys : TRUE
         IN Len(s.ranges[k]) + MonoRangesOver(s, keys \ {k})

MonoRanges(s) == MonoRangesOver(s, DOMAIN s.ranges)

\* ordslice::Ext::upper_bound_by with the closure |r| z.cmp(&r.start):
\* the closure answers Greater exactly when z > r.start.  Indices are 0-based
\* as in the source; rs[i + 1] is the element at index i.
RECURSIVE UpperBoundLoop(_, _, _, _)
UpperBoundLoop(rs, z, base, size) ==
    IF size > 1
    THEN LET half == size \div 2
             mid == base + half
             greater == z > rs[mid + 1].start
         IN UpperBoundLoop(rs, z, IF greater THEN base ELSE mid, size - half)
    ELSE LET greater == z > rs[base + 1].start
         IN base + (IF greater THEN 0 ELSE 1)

UpperBoundBy(rs, z) ==
    IF Len(rs) = 0 THEN 0 ELSE UpperBoundLoop(rs, z, 0, Len(rs))

\* an insert that overwrites the run at idx
InsertAt_mut(rs, idx, r) ==
    SubSeq(rs, 1, idx) \o <<r>> \o SubSeq(rs, idx + 2, Len(rs))

InsertAt(rs, idx, r) ==
    SubSeq(rs, 1, idx) \o <<r>> \o SubSeq(rs, idx + 1, Len(rs))

\* the scan of add stopping after the first run
ScanRuns_mut(rs, i, z) ==
    IF i > Len(rs) THEN [res |-> "none", runs |-> rs]
    ELSE LET r == rs[i] IN
         IF RangeContains(r, z) THEN [res |-> "found", runs |-> rs]
         ELSE IF r.start = z + 1
              THEN [res |-> "updated",
                    runs |-> [rs EXCEPT ![i] = [start |-> r.start - 1, end |-> r.end]]]
         ELSE IF r.end = z
              THEN [res |-> "updated",
                    runs |-> [rs EXCEPT ![i] = [start |-> r.start, end |-> r.end + 1]]]
         ELSE [res |-> "none", runs |-> rs]

\* the `for r in v.get_mut()` loop of add: "found" when a run contains z
\* (return false), "updated" when a run was extended (break), "none" when the
\* loop ran to the end
RECURSIVE ScanRuns(_, _, _)
ScanRuns(rs, i, z) ==
    IF i > Len(rs) THEN [res |-> "none", runs |-> rs]
    ELSE LET r == rs[i] IN
         IF RangeContains(r, z) THEN [res |-> "found", runs |-> rs]
         ELSE IF r.start = z + 1
              THEN [res |-> "updated",
                    runs |-> [rs EXCEPT ![i] = [start |-> r.start - 1, end |-> r.end]]]
         ELSE IF r.end = z
              THEN [res |-> "updated",
                    runs |-> [rs EXCEPT ![i] = [start |-> r.start, end |-> r.end + 1]]]
         ELSE ScanRuns(rs, i + 1, z)

\* an add that returns true also when it finds the coordinate in a run
MonoAdd_mut(s, coord) ==
    LET z == coord[3]
        key == <<coord[1], coord[2]>>
    IN IF key \notin DOMAIN s.ranges
       THEN [store |-> [ranges |-> (key :> <<[start |-> z, end |-> z + 1]>>) @@ s.ranges,
                        bb |-> BoundingBoxAdd(s.bb, coord)],
             ret |-> TRUE]
       ELSE LET scan == ScanRuns(s.ranges[key], 1, z) IN
            IF scan.res = "found"
            THEN [store |-> s, ret |-> TRUE]
            ELSE LET runs == IF scan.res = "updated" THEN scan.runs
                             ELSE InsertAt(scan.runs, UpperBoundBy(scan.runs, z),
                                           [start |-> z, end |-> z + 1])
                 IN [store |-> [ranges |-> (key :> runs) @@ s.ranges,
                                bb |-> BoundingBoxAdd(s.bb, coord)],
                     ret |-> TRUE]

\* MonotonicVoxel::add: the store after the call and the returned bool
MonoAdd(s, coord) ==
    LET z == coord[3]
        key == <<coord[1], coord[2]>>
    IN IF key \notin DOMAIN s.ranges
       THEN [store |-> [ranges |-> (key :> <<[start |-> z, end |-> z + 1]>>) @@ s.ranges,
                        bb |-> BoundingBoxAdd(s.bb, coord)],
             ret |-> TRUE]
       ELSE LET scan == ScanRuns(s.ranges[key], 1, z) IN
            IF scan.res = "found"
            THEN [store |-> s, ret |-> FALSE]
            ELSE LET runs == IF scan.res = "updated" THEN scan.runs
                             ELSE InsertAt(scan.runs, UpperBoundBy(scan.runs, z),
                                           [start |-> z, end |-> z + 1])
                 IN [store |-> [ranges |-> (key :> runs) @@ s.ranges,
                                bb |-> BoundingBoxAdd(s.bb, coord)],
                     ret |-> TRUE]

\* -------------------------------------------------------- RangeSetVoxel
\* ranges: rangemap::RangeSet<VoxelIdx>, a set of half-open ranges
\* [start |-> a, end |-> b] over the lexicographic order of VoxelIdx
RangeSetVoxelDefault == [ranges |-> {}, bb |-> BoundingBoxDefault]

\* RangeSet::contains
RangeSetContains(set, coord) ==
    \E r \in set : LexLe(r.start, coord) /\ LexLt(coord, r.end)

LexMin(a, b) == IF LexLt(a, b) THEN a ELSE b
LexMax(a, b) == IF LexLt(a, b) THEN b ELSE a

RECURSIVE LexMinOf(_)
LexMinOf(S) ==
    LET a == CHOOSE a \in S : TRUE
    IN IF S = {a} THEN a ELSE LexMin(a, LexMinOf(S \ {a}))

RECURSIVE LexMaxOf(_)
LexMaxOf(S) ==
    LET a == CHOOSE a \in S : TRUE
    IN IF S = {a} THEN a ELSE LexMax(a, LexMaxOf(S \ {a}))

\* RangeSet::insert: the new range absorbs every stored range it overlaps
\* or touches
RangeSetInsert_mut(set, new) ==
    LET hit == {r \in set : LexLt(r.start, new.end) /\ LexLt(new.start, r.end)}
        merged == [start |-> LexMinOf({new.start} \cup {r.start : r \in hit}),
                   end |-> LexMaxOf({new.end} \cup {r.end : r \in hit})]
    IN (set \ hit) \cup {merged}

RangeSetInsert(set, new) ==
    LET hit == {r \in set : LexLe(r.start, new.end) /\ LexLe(new.start, r.end)}
        merged == [start |-> LexMinOf({new.start} \cup {r.start : r \in hit}),
                   end |-> LexMaxOf({new.end} \cup {r.end : r \in hit})]
    IN (set \ hit) \cup {merged}

RsOccupied(s, coord) == RangeSetContains(s.ranges, coord)

RECURSIVE RsBlocksOver(_)
RsBlocksOver(set) ==
    IF set = {} THEN 0
    ELSE LET r == CHOOSE r \in set : TRUE
         IN (r.end[3] - r.start[3]) + RsBlocksOver(set \ {r})

RsBlocks(s) == RsBlocksOver(s.ranges)

RsRanges(s) == Cardinality(s.ranges)

RsAdd(s, coord) ==
    IF RsOccupied(s, coord)
    THEN [store |-> s, ret |-> FALSE]
    ELSE LET end == VAdd(coord, <<0, 0, 1>>)
         IN [store |-> [ranges |-> RangeSetInsert(s.ranges, [start |-> coord, end |-> end]),
                        bb |-> BoundingBoxAdd(s.bb, coord)],
             ret |-> TRUE]

\* ------------------------------------------------------ trait Voxel (V)
\* the store behind a `V: Voxel`: kind is "mono" or "rangeset"
VoxelOccupied(kind, s, coord) ==
    IF kind = "mono" THEN MonoOccupied(s, coord) ELSE RsOccupied(s, coord)

VoxelAdd(kind, s, coord) ==
    IF kind = "mono" THEN MonoAdd(s, coord) ELSE RsAdd(s, coord)

VoxelBlocks(kind, s) ==
    IF kind = "mono" THEN MonoBlocks(s) ELSE RsBlocks(s)

\* ---------------------------------------------------------------- Model
\* vertices: IndexSet<VoxelIdx> as the sequence of its elements in insertion
\* order (index i of the source is position i + 1); faces: Vec<[usize; 4]>
ModelDefault == [vertices |-> << >>, faces |-> << >>]

ProjX(v) == <<v[1], 0, 0>>
ProjY(v) == <<0, v[2], 0>>
ProjZ(v) == <<0, 0, v[3]>>
ProjXY(v) == <<v[1], v[2], 0>>
ProjXZ(v) == <<v[1], 0, v[3]>>
ProjYZ(v) == <<0, v[2], v[3]>>

\* Model::add_vert through IndexSet::insert_full: the index of coord, appended
\* when it is new
\* an add_vert that appends the coordinate whether or not it is there
AddVert_mut(m, coord) ==
    [model |-> [m EXCEPT !.vertices = Append(@, coord)], idx |-> Len(m.vertices)]

AddVert(m, coord) ==
    IF \E i \in 1..Len(m.vertices) : m.vertices[i] = coord
    THEN [model |-> m,
          idx |-> (CHOOSE i \in 1..Len(m.vertices) : m.vertices[i] = coord) - 1]
    ELSE [model |-> [m EXCEPT !.vertices = Append(@, coord)],
          idx |-> Len(m.vertices)]

\* the four corners of add_face in the order they are passed to add_vert
FaceCorners(coord, dir) ==
    IF dir[1] = 0
    THEN <<coord, VAdd(coord, ProjY(dir)), VAdd(coord, ProjYZ(dir)), VAdd(coord, ProjZ(dir))>>
    ELSE IF dir[2] = 0
    THEN <<coord, VAdd(coord, ProjX(dir)), VAdd(coord, ProjXZ(dir)), VAdd(coord, ProjZ(dir))>>
    ELSE <<coord, VAdd(coord, ProjX(dir)), VAdd(coord, ProjXY(dir)), VAdd(coord, ProjY(dir))>>

AddFace(m, coord, dir) ==
    LET cs == FaceCorners(coord, dir)
        a0 == AddVert(m, cs[1])
        a1 == AddVert(a0.model, cs[2])
        a2 == AddVert(a1.model, cs[3])
        a3 == AddVert(a2.model, cs[4])
    IN [a3.model EXCEPT !.faces = Append(@, <<a0.idx, a1.idx, a2.idx, a3.idx>>)]

\* add_face applied to a sequence of (coord, dir) calls in order (the test
\* on m1 makes each call's result a value before the next call starts;
\* add_face always leaves a face behind)
RECURSIVE AddFaces(_, _)
AddFaces(m, calls) ==
    IF calls = << >> THEN m
    ELSE LET m1 == AddFace(m, Head(calls).coord, Head(calls).dir)
         IN IF Len(m1.faces) > 0 THEN AddFaces(m1, Tail(calls)) ELSE m1

\* the lateral tables of the two to_model implementations
MonoFaceTable ==
    << [d |-> <<1, 0>>, offset |-> <<1, 0, 0>>, dir |-> <<0, 1, 1>>],
       [d |-> <<0, 1>>, offset |-> <<0, 1, 0>>, dir |-> <<1, 0, 1>>] >>

RsFaceTable ==
    << [d |-> <<1, 0>>, offset |-> <<1, 1, 1>>, dir |-> <<0, -1, -1>>],
       [d |-> <<-1, 0>>, offset |-> <<0, 0, 0>>, dir |-> <<0, 1, 1>>],
       [d |-> <<0, 1>>, offset |-> <<1, 1, 1>>, dir |-> <<-1, 0, -1>>],
       [d |-> <<0, -1>>, offset |-> <<0, 0, 0>>, dir |-> <<1, 0, 1>>] >>

\* `for z in range.clone()`: the add_face calls of one table row
RECURSIVE LateralZ(_, _, _, _, _, _, _)
LateralZ(kind, s, x, y, z, end, f) ==
    IF z >= end THEN << >>
    ELSE (IF ~VoxelOccupied(kind, s, <<x + f.d[1], y + f.d[2], z>>)
          THEN << [coord |-> <<x + f.offset[1], y + f.offset[2], z + f.offset[3]>>,
                   dir |-> f.dir] >>
          ELSE << >>)
         \o LateralZ(kind, s, x, y, z + 1, end, f)

\* `for ([dx, dy], offset, dir) in faces`
RECURSIVE LateralFaces(_, _, _, _, _, _, _)
LateralFaces(kind, s, x, y, start, end, table) ==
    IF table = << >> THEN << >>
    ELSE LateralZ(kind, s, x, y, start, end, Head(table))
         \o LateralFaces(kind, s, x, y, start, end, Tail(table))

\* the body of MonotonicVoxel::to_model for one run of column (x, y)
MonoRunFaces(s, x, y, range) ==
    IF range.start >= range.end THEN << >>
    ELSE (IF ~MonoOccupied(s, <<x, y, range.end>>)
          THEN << [coord |-> <<x, y, range.end>>, dir |-> <<1, 1, 0>>] >>
          ELSE << >>)
         \o LateralFaces("mono", s, x, y, range.start, range.end, MonoFaceTable)

RECURSIVE MonoColumnFaces(_, _, _, _)
MonoColumnFaces(s, x, y, runs) ==
    IF runs = << >> THEN << >>
    ELSE MonoRunFaces(s, x, y, Head(runs)) \o MonoColumnFaces(s, x, y, Tail(runs))

\* BTreeMap iteration: keys in ascending order of [i32; 2]
KeyLt(a, b) == a[1] < b[1] \/ (a[1] = b[1] /\ a[2] < b[2])

RECURSIVE MonoFacesOver(_, _)
MonoFacesOver(s, keys) ==
    IF keys = {} THEN << >>
    ELSE LET k == CHOOSE k \in keys : \A o \in keys : o = k \/ KeyLt(k, o)
         IN MonoColumnFaces(s, k[1], k[2], s.ranges[k]) \o MonoFacesOver(s, keys \ {k})

MonoToModel(s) == AddFaces(ModelDefault, MonoFacesOver(s, DOMAIN s.ranges))

\* the assert_eq!(range.start.xy(), range.end.xy()) of RangeSetVoxel::to_model
RsToModelAssertOk(s) ==
    \A r \in s.ranges : ProjXY(r.start) = ProjXY(r.end)

\* to_model placing the upper cap one voxel above the start of the range
RsRangeFaces_mut(s, range) ==
    LET x == range.start[1]
        y == range.start[2]
    IN << [coord |-> <<x, y, range.start[3]>>, dir |-> <<1, 1, 0>>],
          [coord |-> <<x, y, range.start[3] + 1>>, dir |-> <<1, 1, 0>>] >>
       \o LateralFaces("rangeset", s, x, y, range.start[3], range.end[3], RsFaceTable)

\* the body of RangeSetVoxel::to_model for one stored range
RsRangeFaces(s, range) ==
    LET x == range.start[1]
        y == range.start[2]
    IN << [coord |-> <<x, y, range.start[3]>>, dir |-> <<1, 1, 0>>],
          [coord |-> <<x, y, range.end[3]>>, dir |-> <<1, 1, 0>>] >>
       \o LateralFaces("rangeset", s, x, y, range.start[3], range.end[3], RsFaceTable)

\* RangeSet::iter: ranges in ascending order of start
RECURSIVE RsFacesOver(_, _)
RsFacesOver(s, set) ==
    IF set = {} THEN << >>
    ELSE LET r == CHOOSE r \in set : \A o \in set : o = r \/ LexLt(r.start, o.start)
         IN RsRangeFaces(s, r) \o RsFacesOver(s, set \ {r})

RsToModel(s) == AddFaces(ModelDefault, RsFacesOver(s, s.ranges))

\* ------------------------------------------------------------ inject_at
\* depth: 100 of the seed HeapItem
InitDepth == 100

magnitude_squared(v) == v[1] * v[1] + v[2] * v[2] + v[3] * v[3]

directions ==
    << <<1, 0, 0>>, <<-1, 0, 0>>, <<0, 1, 0>>, <<0, -1, 0>>, <<0, 0, 1>>, <<0, 0, -1>> >>

HeapItem(dist, depth, pos) == [dist |-> dist, depth |-> depth, pos |-> pos]

\* a partial_cmp that compares depth where it should compare dist
CanPop_mut(heap, item) ==
    /\ BagIn(item, heap)
    /\ \A o \in BagToSet(heap) : item.depth <= o.depth

\* BinaryHeap::pop under HeapItem's partial_cmp (other.dist.cmp(&self.dist)):
\* the heap compares with <= and >=, so the entry it hands out is one of
\* least dist; which one among equal dists is left open
CanPop(heap, item) ==
    /\ BagIn(item, heap)
    /\ \A o \in BagToSet(heap) : item.dist <= o.dist

\* the slab test with its two comparisons exchanged
InSlab_mut(next, zlow, zhigh) == ~(next[3] > zlow \/ next[3] < zhigh)

\* negation of `next[2] < zlow || next[2] > zhigh`
InSlab(next, zlow, zhigh) == ~(next[3] < zlow \/ next[3] > zhigh)

\* `for dir in directions`: the heap after the pushes for directions i..6
RECURSIVE Expand(_, _, _, _, _, _)
Expand(heap, vis, c, pos, depth, i) ==
    IF i > Len(directions) THEN heap
    ELSE LET next == VAdd(pos, directions[i])
             skip == ~InSlab(next, c.zlow, c.zhigh) \/ MonoOccupied(vis, next)
             dist == magnitude_squared(VSub(c.pos0, next))
         IN Expand(IF skip THEN heap
                   ELSE heap (+) SetToBag({HeapItem(dist, depth - 1, next)}),
                   vis, c, pos, depth, i + 1)

\* candidates.pop(): the heap without the entry handed out
HeapPop(heap, item) == heap (-) SetToBag({item})

\* ------------------------------------------------------- generate_gcode
\* lengths are held in hundredths of a millimetre and extrusion lengths in
\* units of 1/K millimetre; the coordinates of the lines are multiples of
\* step_size and extruding moves run along one axis, so that the float
\* arithmetic of the source is exact on them
UNIT == 4
StepSize == 10
K == 29000
SlabDepth == 20

\* f32::round of a / b for b > 0: halves go away from zero
RoundDiv(a, b) ==
    IF a >= 0 THEN (2 * a + b) \div (2 * b)
    ELSE 0 - ((2 * (0 - a) + b) \div (2 * b))

to_intpos(p) == <<RoundDiv(p[1], UNIT), RoundDiv(p[2], UNIT), RoundDiv(p[3], UNIT)>>

Abs(a) == IF a < 0 THEN 0 - a ELSE a

Sign(a) == IF a < 0 THEN 0 - 1 ELSE IF a > 0 THEN 1 ELSE 0

\* magnitude of a vector that has at most one component other than 0
Magnitude(v) == Abs(v[1]) + Abs(v[2]) + Abs(v[3])

AxisAligned(v) == Cardinality({i \in 1..3 : v[i] # 0}) <= 1

\* an argument of a line is the empty set when its letter is missing or has
\* no value, and holds the value otherwise
ArgOr(arg, old) == IF arg = {} THEN old ELSE CHOOSE v \in arg : TRUE

\* the `for (letter, value) in code.arguments()` of major 0 and major 1
Dst(p, l) == <<ArgOr(l.x, p[1]), ArgOr(l.y, p[2]), ArgOr(l.z, p[3])>>

DstE(e, l) == ArgOr(l.e, e)

\* (dst_e - e) * 29000f32 as usize, for dst_e - e a multiple of 1/K
TotalBlocks(de) == (de * K) \div K

\* (total_blocks * step_size / len) as usize; the cast of the infinite
\* quotient of len = 0 saturates
BlocksPerStep(total, len) ==
    IF len = 0 THEN "usize::MAX" ELSE (total * StepSize) \div len

\* given: the budgets handed to inject_at so far in this move
NoSeg == [phase |-> "none", dst |-> <<0, 0, 0>>, dst_e |-> 0, dir |-> <<0, 0, 0>>,
          cursor |-> <<0, 0, 0>>, total |-> 0, blocks |-> 0, per_step |-> 0,
          given |-> << >>]

\* the f32 nearest to v: from 2^21 mm to 2^22 mm the f32 values lie 0.25 mm
\* apart (25 hundredths; no v is halfway between two of them); below, on the
\* coordinates of GLines, they lie closer than the model's unit
F32Round(v) ==
    IF Abs(v) < 2097152 * 100 \/ Abs(v) >= 4194304 * 100 THEN v
    ELSE LET r == Abs(v) % 25
             down == Abs(v) - r
             near == IF 2 * r < 25 THEN down ELSE down + 25
         IN Sign(v) * near

\* the lines read: moves of major 0 and 1 along x with and without E, a
\* positioning move in y and z, and a line the loop ignores
GLines ==
    {[major |-> 0, x |-> {xv * StepSize}, y |-> {}, z |-> {}, e |-> {}] :
         xv \in {0, GMaxX}}
    \cup {[major |-> 0, x |-> {}, y |-> {StepSize}, z |-> {2 * StepSize}, e |-> {0}]}
    \cup {[major |-> 1, x |-> xs, y |-> {}, z |-> {}, e |-> es] :
              xs \in {{}, {0}, {GMaxX * StepSize}},
              es \in {{}} \cup {{ev} : ev \in 0..GMaxE}}
    \cup {[major |-> 92, x |-> {}, y |-> {}, z |-> {}, e |-> {0}]}

\* lines that move 2^21 mm away in x and then extrude on the spot or over
\* 0.25 mm, enough for every pass of the loop to have a share of one block
FarLines ==
    {[major |-> 0, x |-> {2097152 * 100}, y |-> {}, z |-> {}, e |-> {}]}
    \cup {[major |-> 1, x |-> {2097152 * 100 + dx}, y |-> {}, z |-> {}, e |-> {ev}] :
              dx \in {0, 25}, ev \in 3..FarMaxE}

\* ------------------------------------------------------------- actions
NoCall == [zlow |-> 0, zhigh |-> 0, pos0 |-> <<0, 0, 0>>, n |-> 0,
           empty |-> FALSE, calls |-> 0]

Target == IF variant = "mono" THEN mv ELSE rv

Init ==
    /\ mv = MonotonicVoxelDefault
    /\ rv = RangeSetVoxelDefault
    /\ hist = << >>
    /\ modelM = ModelDefault
    /\ modelR = ModelDefault
    /\ modelAt = 0 - 1
    /\ panicked = FALSE
    /\ pc = "idle"
    /\ variant = "mono"
    /\ candidates = EmptyBag
    /\ visited = MonotonicVoxelDefault
    /\ n = 0
    /\ call = NoCall
    /\ inserted = << >>
    /\ pops = EmptyBag
    /\ gpos = <<0, 0, 0>>
    /\ ge = 0
    /\ lines = << >>
    /\ seg = NoSeg

\* one add(coord) call, applied to a store of each variant
Add(coord) ==
    LET m == MonoAdd(mv, coord)
        r == RsAdd(rv, coord)
    IN /\ pc = "idle"
       /\ mv' = m.store
       /\ rv' = r.store
       /\ hist' = Append(hist, [c |-> coord,
                                preM |-> MonoOccupied(mv, coord),
                                preR |-> RsOccupied(rv, coord),
                                retM |-> m.ret, retR |-> r.ret,
                                postM |-> MonoOccupied(m.store, coord),
                                postR |-> RsOccupied(r.store, coord)])
       /\ UNCHANGED <<meshVars, injVars, gcVars>>

\* to_model() on each store; modelAt remembers how many adds preceded it
ToModel ==
    /\ pc = "idle"
    /\ modelM' = MonoToModel(mv)
    /\ IF RsToModelAssertOk(rv)
       THEN modelR' = RsToModel(rv) /\ panicked' = panicked
       ELSE modelR' = modelR /\ panicked' = TRUE
    /\ modelAt' = Len(hist)
    /\ UNCHANGED <<storeVars, injVars, gcVars>>

\* inject_at without the early return of `if n == 0`
InjectCallAt_mut(k, zlow, zhigh, p0, n0, d) ==
    /\ pc = "idle"
    /\ variant' = k
    /\ call' = [zlow |-> zlow, zhigh |-> zhigh, pos0 |-> p0, n |-> n0,
                empty |-> (IF k = "mono" THEN mv.ranges = << >> ELSE rv.ranges = {}),
                calls |-> call.calls + 1]
    /\ inserted' = << >>
    /\ pops' = EmptyBag
    /\ n' = n0
    /\ visited' = MonotonicVoxelDefault
    /\ pc' = "loop"
    /\ candidates' = SetToBag({HeapItem(0, d, p0)})
    /\ UNCHANGED <<storeVars, meshVars>>

\* inject_at(v, zlow, zhigh, pos0, n0) up to the first loop test, the seed
\* being pushed with depth d (100 in the source); v is the store of variant k
InjectCallAt(k, zlow, zhigh, p0, n0, d) ==
    /\ pc = "idle"
    /\ variant' = k
    /\ call' = [zlow |-> zlow, zhigh |-> zhigh, pos0 |-> p0, n |-> n0,
                empty |-> (IF k = "mono" THEN mv.ranges = << >> ELSE rv.ranges = {}),
                calls |-> call.calls + 1]
    /\ inserted' = << >>
    /\ pops' = EmptyBag
    /\ n' = n0
    /\ visited' = MonotonicVoxelDefault
    /\ IF n0 = 0
       THEN pc' = "idle" /\ candidates' = EmptyBag
       ELSE /\ pc' = "loop"
            /\ candidates' = SetToBag({HeapItem(0, d, p0)})
    /\ UNCHANGED <<storeVars, meshVars>>

InjectCall(k, zlow, zhigh, p0, n0) == InjectCallAt(k, zlow, zhigh, p0, n0, InitDepth)

\* what one pass of the loop did with the entry it popped: kind is "depth0"
\* or "revisit" for the two `continue`s, "break" for the pass that ends the
\* call and "expand" for a pass that reaches the neighbour loop; cost is what
\* the pass took from n, zero whether it left n at 0
Pass(item, kind, offered, pre, ret, before, after) ==
    [pos |-> item.pos, kind |-> kind, offered |-> offered,
     pre |-> pre, ret |-> ret, cost |-> before - after, zero |-> after = 0]

Logged(pass) == SetToBag({pass})

\* one pass of `while let Some(..) = candidates.pop()` that finds an entry
InjectLoop ==
    /\ pc = "loop"
    /\ \E item \in BagToSet(candidates) :
        /\ CanPop(candidates, item)
        /\ LET heap == HeapPop(candidates, item)
               va == MonoAdd(visited, item.pos)
               pre == VoxelOccupied(variant, Target, item.pos)
               ta == VoxelAdd(variant, Target, item.pos)
               left == IF ta.ret THEN n - 1 ELSE n
           IN IF item.depth = 0
              THEN /\ candidates' = heap
                   /\ pops' = pops (+) Logged(Pass(item, "depth0", FALSE, pre, FALSE,
                                                n, n))
                   /\ UNCHANGED <<storeVars, visited, n, inserted, pc>>
              ELSE IF ~va.ret
              THEN /\ candidates' = heap
                   /\ pops' = pops (+) Logged(Pass(item, "revisit", FALSE, pre, FALSE,
                                                n, n))
                   /\ UNCHANGED <<storeVars, visited, n, inserted, pc>>
              ELSE /\ IF variant = "mono"
                      THEN mv' = ta.store /\ rv' = rv
                      ELSE rv' = ta.store /\ mv' = mv
                   /\ n' = left
                   /\ inserted' = IF ta.ret THEN Append(inserted, item.pos) ELSE inserted
                   /\ IF ta.ret /\ left = 0
                      THEN /\ pc' = "idle"
                           /\ candidates' = EmptyBag
                           /\ visited' = MonotonicVoxelDefault
                           /\ pops' = pops (+) Logged(Pass(item, "break", TRUE, pre,
                                                        ta.ret, n, left))
                      ELSE /\ pc' = "loop"
                           /\ visited' = va.store
                           /\ candidates' = Expand(heap, va.store, call, item.pos,
                                                   item.depth, 1)
                           /\ pops' = pops (+) Logged(Pass(item, "expand", TRUE, pre,
                                                        ta.ret, n, left))
                   /\ hist' = hist
    /\ UNCHANGED <<meshVars, variant, call, gcVars>>

\* a loop that does not end when the frontier is empty
InjectReturn_mut ==
    /\ pc = "loop"
    /\ candidates = EmptyBag
    /\ UNCHANGED vars

\* the loop test when the frontier is empty: inject_at returns
InjectReturn ==
    /\ pc = "loop"
    /\ candidates = EmptyBag
    /\ pc' = "idle"
    /\ visited' = MonotonicVoxelDefault
    /\ UNCHANGED <<storeVars, meshVars, variant, candidates, n, call, inserted, pops>>
    /\ UNCHANGED gcVars

\* a line of major 0: the position takes the X, Y and Z given
GcodeG0(l) ==
    /\ l.major = 0
    /\ seg.phase = "none" /\ pc = "idle"
    /\ lines' = Append(lines, l)
    /\ gpos' = Dst(gpos, l)
    /\ UNCHANGED <<ge, seg, storeVars, meshVars, injVars>>

\* a linear move that takes the E given as the tracked length also when it
\* does not extrude
GcodeG1_mut(l) ==
    /\ l.major = 1
    /\ seg.phase = "none" /\ pc = "idle"
    /\ AxisAligned(VSub(Dst(gpos, l), gpos))
    /\ lines' = Append(lines, l)
    /\ gpos' = Dst(gpos, l)
    /\ ge' = DstE(ge, l)
    /\ UNCHANGED <<seg, storeVars, meshVars, injVars>>

\* a line of major 1 up to the `while` of an extruding move
GcodeG1(l) ==
    LET dst == Dst(gpos, l)
        dst_e == DstE(ge, l)
        len == Magnitude(VSub(dst, gpos))
        total_blocks == TotalBlocks(dst_e - ge)
    IN /\ l.major = 1
       /\ seg.phase = "none" /\ pc = "idle"
       /\ AxisAligned(VSub(dst, gpos))
       /\ lines' = Append(lines, l)
       /\ IF dst_e <= ge
          THEN gpos' = dst /\ UNCHANGED <<ge, seg>>
          ELSE /\ seg' = [phase |-> "steps", dst |-> dst, dst_e |-> dst_e,
                          dir |-> <<Sign(dst[1] - gpos[1]), Sign(dst[2] - gpos[2]),
                                    Sign(dst[3] - gpos[3])>>,
                          cursor |-> gpos, total |-> total_blocks,
                          blocks |-> total_blocks,
                          per_step |-> BlocksPerStep(total_blocks, len),
                          given |-> << >>]
               /\ UNCHANGED <<gpos, ge>>
       /\ UNCHANGED <<storeVars, meshVars, injVars>>

\* a line that is no move of major 0 or 1
GcodeSkip(l) ==
    /\ l.major \notin {0, 1}
    /\ seg.phase = "none" /\ pc = "idle"
    /\ lines' = Append(lines, l)
    /\ UNCHANGED <<gpos, ge, seg, storeVars, meshVars, injVars>>

\* one pass of `while (cursor - dst).magnitude() > step_size`, up to the loop
\* of its inject_at call; mv is the store of variant k. When blocks is below
\* blocks_per_step, `blocks -= blocks_per_step` panics in a build with
\* overflow checks and wraps in one without, and the loop goes on: both are
\* held as phase "underflow", where the model stops
GcodeStep(k) ==
    LET next == <<F32Round(seg.cursor[1] + seg.dir[1] * StepSize),
                  F32Round(seg.cursor[2] + seg.dir[2] * StepSize),
                  F32Round(seg.cursor[3] + seg.dir[3] * StepSize)>>
        next_pos == to_intpos(next)
        z == next_pos[3]
    IN /\ seg.phase = "steps" /\ pc = "idle"
       /\ Magnitude(VSub(seg.cursor, seg.dst)) > StepSize
       /\ InjectCall(k, z - SlabDepth, z, next_pos, seg.per_step)
       /\ seg' = IF seg.blocks < seg.per_step
                 THEN [seg EXCEPT !.cursor = next, !.phase = "underflow",
                                  !.given = Append(@, seg.per_step)]
                 ELSE [seg EXCEPT !.cursor = next, !.blocks = @ - seg.per_step,
                                  !.given = Append(@, seg.per_step)]
       /\ UNCHANGED <<gpos, ge, lines>>

\* the inject_at call at dst that follows the `while`, up to its loop
GcodeFinal(k) ==
    LET next_pos == to_intpos(seg.dst)
        z == next_pos[3]
    IN /\ seg.phase = "steps" /\ pc = "idle"
       /\ ~(Magnitude(VSub(seg.cursor, seg.dst)) > StepSize)
       /\ InjectCall(k, z - SlabDepth, z, next_pos, seg.blocks)
       /\ seg' = [seg EXCEPT !.phase = "final", !.given = Append(@, seg.blocks)]
       /\ UNCHANGED <<gpos, ge, lines>>

\* `pos = dst; e = dst_e;` once the last inject_at call has returned
GcodeEnd ==
    /\ seg.phase = "final" /\ pc = "idle"
    /\ gpos' = seg.dst
    /\ ge' = seg.dst_e
    /\ seg' = NoSeg
    /\ UNCHANGED <<lines, storeVars, meshVars, injVars>>

AddStep == \E coord \in Coords : Len(hist) < MaxAdds /\ Add(coord)

Next == AddStep

Spec == Init /\ [][Next]_vars

\* the stores under add calls that all fall into the column (0, 0)
ColAddStep ==
    \E z \in 0..ColMaxZ : Len(hist) < ColMaxAdds /\ Add(<<0, 0, z>>)

NextColumn == ColAddStep

SpecColumn == Init /\ [][NextColumn]_vars

\* one inject_at call on a store whose column (0, 0) was filled by add calls
PriorAddStep ==
    \E z \in 0..PriorMaxZ :
        Len(hist) < PriorMaxAdds /\ call.calls = 0 /\ Add(<<0, 0, z>>)

PriorCallStep ==
    \E k \in {"mono", "rangeset"}, sc \in PriorScenarios, n0 \in 1..PriorMaxN :
        /\ call.calls = 0
        /\ InjectCall(k, sc.zlow, sc.zhigh, sc.pos0, n0)
        /\ UNCHANGED gcVars

NextPrior == PriorAddStep \/ PriorCallStep \/ InjectLoop \/ InjectReturn

SpecPrior == Init /\ [][NextPrior]_vars

\* one inject_at call whose seed is pushed with depth SmallDepth
DepthCallStep ==
    \E k \in {"mono", "rangeset"}, sc \in DepthScenarios, n0 \in 1..DepthMaxN :
        /\ call.calls = 0
        /\ InjectCallAt(k, sc.zlow, sc.zhigh, sc.pos0, n0, SmallDepth)
        /\ UNCHANGED gcVars

NextDepth == DepthCallStep \/ InjectLoop \/ InjectReturn

SpecDepth == Init /\ [][NextDepth]_vars

\* inject_at runs its loop to the end once it is called
SpecDepthFair == SpecDepth /\ WF_vars(InjectLoop) /\ WF_vars(InjectReturn)

\* generate_gcode::<V> reading lines of GLines
GcodeLineStep ==
    \E l \in GLines :
        Len(lines) < MaxLines /\ (GcodeG0(l) \/ GcodeG1(l) \/ GcodeSkip(l))

GcodeInjectStep ==
    \E k \in {"mono", "rangeset"} :
        /\ call.calls = 0 \/ k = variant
        /\ GcodeStep(k) \/ GcodeFinal(k)

\* (the frontier of these inject_at calls never runs empty: the seed lies in
\* its slab and the budgets are far below what depth 100 reaches)
NextGcode == GcodeLineStep \/ GcodeInjectStep \/ GcodeEnd \/ InjectLoop

SpecGcode == Init /\ [][NextGcode]_vars

\* generate_gcode::<V> reading lines of FarLines: the travel first, so that
\* no move of 2^21 mm is stepped through
FarLineStep ==
    \E l \in FarLines :
        /\ Len(lines) < MaxLines
        /\ \/ GcodeG0(l)
           \/ lines # << >> /\ GcodeG1(l)

NextFar == FarLineStep \/ GcodeInjectStep \/ GcodeEnd \/ InjectLoop

SpecFar == Init /\ [][NextFar]_vars

\* the corners and directions add_face is called with: those of a unit cube
FaceCoords == {<<0, 0, 0>>, <<1, 1, 1>>}

FaceDirs == {<<1, 1, 0>>, <<1, 0, 1>>, <<0, 1, 1>>,
             <<0 - 1, 0 - 1, 0>>, <<0 - 1, 0, 0 - 1>>, <<0, 0 - 1, 0 - 1>>}

\* one add_face call on a Model, held in modelM
AddFaceStep ==
    \E coord \in FaceCoords, dir \in FaceDirs :
        /\ Len(modelM.faces) < MaxFaces
        /\ modelM' = AddFace(modelM, coord, dir)
        /\ UNCHANGED <<storeVars, modelR, modelAt, panicked, injVars, gcVars>>

NextFaces == AddFaceStep

SpecFaces == Init /\ [][NextFaces]_vars

\* the stores with mesh extraction
MeshAddStep == \E coord \in MeshCoords : Len(hist) < MeshMaxAdds /\ Add(coord)

NextMesh == MeshAddStep \/ ToModel

SpecMesh == Init /\ [][NextMesh]_vars

\* one inject_at call on a store that holds earlier adds
InjAddStep ==
    \E coord \in InjCoords :
        Len(hist) < InjMaxAdds /\ call.calls = 0 /\ Add(coord)

InjCallStep ==
    \E k \in {"mono", "rangeset"}, sc \in Scenarios, n0 \in 0..MaxN :
        /\ call.calls = 0
        /\ InjectCall(k, sc.zlow, sc.zhigh, sc.pos0, n0)
        /\ UNCHANGED gcVars

NextInject == InjAddStep \/ InjCallStep \/ InjectLoop \/ InjectReturn

SpecInject == Init /\ [][NextInject]_vars

\* ------------------------------------------------- store-level properties
\* coordinates queried by the properties: the ones add is called with and a
\* margin of one around them
Probe ==
    {<<k[1], k[2], z>> : k \in {<<0, 0>>, <<1, 0 - 1>>, <<0, 0 - 1>>},
                         z \in (0 - 1)..(MaxZ + 1)}

Added == {hist[i].c : i \in 1..Len(hist)}
InsertedM == {hist[i].c : i \in {j \in 1..Len(hist) : hist[j].retM}}
InsertedR == {hist[i].c : i \in {j \in 1..Len(hist) : hist[j].retR}}
OccupiedM == {c \in Probe : MonoOccupied(mv, c)}
OccupiedR == {c \in Probe : RsOccupied(rv, c)}

RECURSIVE SetMin(_)
SetMin(S) ==
    LET a == CHOOSE a \in S : TRUE
    IN IF S = {a} THEN a ELSE Min2(a, SetMin(S \ {a}))

RECURSIVE SetMax(_)
SetMax(S) ==
    LET a == CHOOSE a \in S : TRUE
    IN IF S = {a} THEN a ELSE Max2(a, SetMax(S \ {a}))

TrueMin(S) == <<SetMin({c[1] : c \in S}), SetMin({c[2] : c \in S}), SetMin({c[3] : c \in S})>>
TrueMax(S) == <<SetMax({c[1] : c \in S}), SetMax({c[2] : c \in S}), SetMax({c[3] : c \in S})>>

\* C1: in both store variants add(c) returns true iff c was not occupied
\* immediately before the call, and a call that returns false leaves the
\* store (runs, bounding box, insertion count) unchanged.
C1_AddReturnsNewlyOccupied ==
    [][Len(hist') = Len(hist) + 1 =>
         LET h == hist'[Len(hist')] IN
         /\ h.retM <=> ~MonoOccupied(mv, h.c)
         /\ h.retR <=> ~RsOccupied(rv, h.c)
         /\ ~h.retM => mv' = mv
         /\ ~h.retR => rv' = rv]_vars

\* C2: in both store variants occupied(c) is true iff c was the argument of
\* an earlier add call, so nothing ever becomes unoccupied again.
C2_OccupiedIffAdded ==
    \A c \in Probe :
        /\ MonoOccupied(mv, c) <=> c \in Added
        /\ RsOccupied(rv, c) <=> c \in Added

\* some coordinates were added, one of them twice, and a column holds a gap
C2_Witness ==
    /\ Cardinality(Added) >= 2
    /\ Cardinality(Added) < Len(hist)
    /\ \E c \in Added : LET up == VAdd(c, <<0, 0, 1>>) IN
           /\ ~MonoOccupied(mv, up) /\ ~RsOccupied(rv, up)
           /\ VAdd(up, <<0, 0, 1>>) \in Added

\* C3: in both store variants blocks() equals the number of distinct
\* occupied coordinates.
C3_BlocksCountsDistinct ==
    /\ MonoBlocks(mv) = Cardinality(OccupiedM)
    /\ RsBlocks(rv) = Cardinality(OccupiedR)

\* C4: the two variants are interchangeable: every add returns the same
\* boolean in both, and after every call occupied(c) agrees for every c and
\* blocks() agrees.
C4_Interchangeable ==
    /\ \A i \in 1..Len(hist) : hist[i].retM = hist[i].retR
    /\ \A c \in Probe : MonoOccupied(mv, c) <=> RsOccupied(rv, c)
    /\ MonoBlocks(mv) = RsBlocks(rv)

\* C9: once an add has succeeded, the bounding box min and max are the
\* componentwise minimum and maximum over the coordinates whose add returned
\* true, and its count is the number of add calls that returned true.
C9_BoundingBox ==
    /\ InsertedM # {} =>
         /\ mv.bb.bound_min = TrueMin(InsertedM)
         /\ mv.bb.bound_max = TrueMax(InsertedM)
    /\ mv.bb.count = Cardinality({i \in 1..Len(hist) : hist[i].retM})
    /\ InsertedR # {} =>
         /\ rv.bb.bound_min = TrueMin(InsertedR)
         /\ rv.bb.bound_max = TrueMax(InsertedR)
    /\ rv.bb.count = Cardinality({i \in 1..Len(hist) : hist[i].retR})

\* three successful inserts whose box corners are none of the inserted points
C9_Witness ==
    /\ rv.bb.count >= 3 /\ mv.bb.count >= 3
    /\ rv.bb.bound_min \notin InsertedR /\ rv.bb.bound_max \notin InsertedR
    /\ mv.bb.bound_min \notin InsertedM /\ mv.bb.bound_max \notin InsertedM
    /\ rv.bb.bound_min # <<0, 0, 0>> /\ rv.bb.bound_max # <<0, 0, 0>>

\* C10: in both variants, two consecutive add(c) calls on a coordinate that
\* was unoccupied before the first return true then false, and occupied(c)
\* is true after each of them.
C10_AddTwice ==
    \A i \in 2..Len(hist) :
        hist[i].c = hist[i - 1].c =>
            /\ ~hist[i - 1].preM =>
                 /\ hist[i - 1].retM /\ ~hist[i].retM
                 /\ hist[i - 1].postM /\ hist[i].postM
            /\ ~hist[i - 1].preR =>
                 /\ hist[i - 1].retR /\ ~hist[i].retR
                 /\ hist[i - 1].postR /\ hist[i].postR

\* add(c); add(c) on an unoccupied c of a column whose runs already overlap
C10_Witness ==
    \E i \in 3..Len(hist) :
        /\ hist[i].c = hist[i - 1].c
        /\ ~hist[i - 1].preM /\ ~hist[i - 1].preR
        /\ Len(mv.ranges[<<hist[i].c[1], hist[i].c[2]>>]) >= 2
        /\ \E j \in 1..(i - 2) : hist[j].retM /\ hist[j].preM
                                   /\ hist[j].c[1] = hist[i].c[1]
                                   /\ hist[j].c[2] = hist[i].c[2]

\* ------------------------------------------------------ mesh properties
VertexSet(m) == {m.vertices[i] : i \in 1..Len(m.vertices)}

\* C5: a mesh extracted after exactly one insertion into an empty store has
\* exactly 6 quads and exactly 8 distinct vertices, in both store variants.
C5_SingleVoxelCube ==
    modelAt = 1 =>
        /\ Len(modelM.faces) = 6 /\ Cardinality(VertexSet(modelM)) = 8
        /\ Len(modelR.faces) = 6 /\ Cardinality(VertexSet(modelR)) = 8

\* the corner sets of the quads of a mesh
FaceSquares(m) ==
    {{m.vertices[m.faces[i][k] + 1] : k \in 1..4} : i \in 1..Len(m.faces)}

LateralDirs == {<<1, 0>>, <<0 - 1, 0>>, <<0, 1>>, <<0, 0 - 1>>}

\* the unit square between voxel c and its neighbour in direction d
LateralSquare(c, d) ==
    IF d[1] # 0
    THEN {<<c[1] + (IF d[1] > 0 THEN 1 ELSE 0), c[2] + a, c[3] + b>> :
              a \in 0..1, b \in 0..1}
    ELSE {<<c[1] + a, c[2] + (IF d[2] > 0 THEN 1 ELSE 0), c[3] + b>> :
              a \in 0..1, b \in 0..1}

\* the unit square at height z over column (x, y)
CapSquare(x, y, z) == {<<x + a, y + b, z>> : a \in 0..1, b \in 0..1}

\* the meshes are those of the stores as they are now
MeshCurrent == modelAt = Len(hist) /\ ~panicked

LateralOk(kind, s, m) ==
    \A c \in MeshCoords : VoxelOccupied(kind, s, c) =>
        \A d \in LateralDirs :
            (LateralSquare(c, d) \in FaceSquares(m))
                <=> ~VoxelOccupied(kind, s, <<c[1] + d[1], c[2] + d[2], c[3]>>)

\* C15: in both variants to_model emits a lateral quad for every occupied
\* voxel and each of the four lateral directions whose neighbour at the same
\* z is unoccupied, and no lateral quad where that neighbour is occupied.
C15_LateralQuads ==
    MeshCurrent => LateralOk("mono", mv, modelM) /\ LateralOk("rangeset", rv, modelR)

NoInnerCap(kind, s, m) ==
    \A c \in MeshCoords :
        (VoxelOccupied(kind, s, c) /\ VoxelOccupied(kind, s, <<c[1], c[2], c[3] + 1>>))
            => CapSquare(c[1], c[2], c[3] + 1) \notin FaceSquares(m)

\* C16: in both variants to_model emits the cap quad at z = end over the
\* column of a stored run [start, end) exactly when the voxel (x, y, end) is
\* unoccupied, and no cap lies between two vertically adjacent occupied
\* voxels.
C16_Caps ==
    MeshCurrent =>
        /\ \A key \in DOMAIN mv.ranges : \A i \in 1..Len(mv.ranges[key]) :
               LET end == mv.ranges[key][i].end IN
               (CapSquare(key[1], key[2], end) \in FaceSquares(modelM))
                   <=> ~MonoOccupied(mv, <<key[1], key[2], end>>)
        /\ \A r \in rv.ranges :
               (CapSquare(r.start[1], r.start[2], r.end[3]) \in FaceSquares(modelR))
                   <=> ~RsOccupied(rv, r.end)
        /\ NoInnerCap("mono", mv, modelM)
        /\ NoInnerCap("rangeset", rv, modelR)

\* meshes of stores with a column of three voxels that the run-length store
\* holds as two runs, the lower one ending where the upper one starts
C16_Witness ==
    /\ MeshCurrent
    /\ \E key \in DOMAIN mv.ranges :
           /\ Len(mv.ranges[key]) = 2
           /\ mv.ranges[key][2].end = mv.ranges[key][1].start
           /\ CapSquare(key[1], key[2], mv.ranges[key][1].end) \in FaceSquares(modelM)
           /\ CapSquare(key[1], key[2], mv.ranges[key][1].end) \in FaceSquares(modelR)

\* ------------------------------------------------- injection properties
Dist(p) == magnitude_squared(VSub(call.pos0, p))

InsertedSet == {inserted[i] : i \in 1..Len(inserted)}

\* the coordinates an injection of at most MaxN voxels from a seed of
\* Scenarios can reach, with a margin
InjProbe ==
    {<<x, y, z>> : x \in (0 - MaxN)..MaxN, y \in (0 - MaxN)..MaxN,
                   z \in (0 - MaxN)..(MaxN + 2)}

TargetOccupied == {c \in InjProbe : VoxelOccupied(variant, Target, c)}

\* an inject_at call with budget n > 0 has returned; the target was empty
\* when it was called and the slab contains the seed
ReturnedFromEmpty ==
    /\ pc = "idle" /\ call.calls >= 1
    /\ call.empty /\ call.n > 0
    /\ call.zlow <= call.pos0[3] /\ call.pos0[3] <= call.zhigh

\* C6: one inject_at call with budget n > 0 into an empty target, with a slab
\* that contains the seed (the unbounded x-y plane of the slab then holds n
\* coordinates within the depth bound), ends with exactly n occupied voxels
\* and blocks() = n.
C6_Conservation ==
    ReturnedFromEmpty =>
        /\ VoxelBlocks(variant, Target) = call.n
        /\ Cardinality(TargetOccupied) = call.n
        /\ InsertedSet = TargetOccupied

\* a call with budget 3 or more into a slab of several layers has returned
C6_Witness ==
    /\ ReturnedFromEmpty
    /\ call.n >= 3 /\ call.zlow < call.zhigh
    /\ VoxelBlocks(variant, Target) = call.n

\* C7: within one inject_at call the newly inserted coordinates are inserted
\* in non-decreasing order of squared distance to the seed pos0.
C7_DistanceOrder ==
    \A i \in 1..Len(inserted) : \A j \in 1..Len(inserted) :
        i < j => Dist(inserted[i]) <= Dist(inserted[j])

\* three insertions at three growing distances
C7_Witness ==
    /\ Len(inserted) >= 3
    /\ Dist(inserted[1]) < Dist(inserted[2])
    /\ Dist(inserted[2]) < Dist(inserted[3])

\* C8: every coordinate an inject_at call inserts into the target satisfies
\* zlow <= z <= zhigh, whatever the seed, the slab and the prior contents.
C8_InsertedInSlab ==
    \A i \in 1..Len(inserted) :
        call.zlow <= inserted[i][3] /\ inserted[i][3] <= call.zhigh

\* ------------------------------------------ store-level properties, cont.
LastCall == hist[Len(hist)]

\* C11: in both variants blocks() after an add call is blocks() before it
\* plus 1 when the call returned true, and unchanged when it returned false.
C11_BlocksStep ==
    [][Len(hist') = Len(hist) + 1 =>
         LET h == hist'[Len(hist')] IN
         /\ MonoBlocks(mv') = MonoBlocks(mv) + (IF h.retM THEN 1 ELSE 0)
         /\ RsBlocks(rv') = RsBlocks(rv) + (IF h.retR THEN 1 ELSE 0)]_vars

\* an add that returned false after adds that extended a run and bridged two
C11_Witness ==
    /\ Len(hist) >= 4
    /\ ~LastCall.retM /\ ~LastCall.retR
    /\ MonoBlocks(mv) >= 3 /\ RsBlocks(rv) >= 3
    /\ MonoRanges(mv) >= 2 /\ RsRanges(rv) = 1

Runs(key) == mv.ranges[key]

\* C13: in the run-length store every stored run has start < end and no z
\* lies in two runs of one column.
C13_RunsDisjoint ==
    \A key \in DOMAIN mv.ranges :
        /\ \A i \in 1..Len(Runs(key)) : Runs(key)[i].start < Runs(key)[i].end
        /\ \A i \in 1..Len(Runs(key)) : \A j \in 1..Len(Runs(key)) :
               i # j => ~\E z \in (0 - 1)..(ColMaxZ + 1) :
                            RangeContains(Runs(key)[i], z) /\ RangeContains(Runs(key)[j], z)

\* C14: the run list of every column is in ascending order of
\* start.
C14_RunsAscending ==
    \A key \in DOMAIN mv.ranges :
        \A i \in 1..(Len(Runs(key)) - 1) : Runs(key)[i].start <= Runs(key)[i + 1].start

\* ------------------------------------------------ injection, cont.
\* C12: an inject_at call with n = 0 returns at once: the target store is
\* unchanged and no frontier entry is pushed or popped.
C12_ZeroBudget ==
    [][(call'.calls = call.calls + 1 /\ call'.n = 0) =>
         /\ mv' = mv /\ rv' = rv
         /\ pc' = "idle"
         /\ candidates' = EmptyBag
         /\ pops' = EmptyBag
         /\ inserted' = << >>]_vars

\* a call with n = 0 on a store that holds a voxel has returned
C12_Witness ==
    /\ call.calls >= 1 /\ call.n = 0 /\ ~call.empty
    /\ pc = "idle"
    /\ MonoBlocks(mv) = 1 /\ RsBlocks(rv) = 1

\* the passes of the current call, and those that reached v.add
Passes == BagToSet(pops)

Offered == {p \in Passes : p.offered}

\* C17: the budget n drops by one for each v.add that returns true and never
\* otherwise; the pass on which it reaches 0 ends the call without expanding;
\* a call newly occupies at most n voxels and removes none; a popped
\* coordinate that is occupied in the target costs no budget and is expanded.
C17_Budget ==
    /\ \A p \in Passes :
           /\ p.cost = (IF p.offered /\ p.ret THEN 1 ELSE 0)
           /\ p.zero <=> p.kind = "break"
           /\ p.kind = "break" =>
                  pc = "idle" /\ candidates = EmptyBag /\ CopiesIn(p, pops) = 1
    /\ Cardinality({p.pos : p \in {q \in Offered : ~q.pre}}) <= call.n
    /\ \A p \in Offered : VoxelOccupied(variant, Target, p.pos)
    /\ \A i \in 1..Len(hist) : MonoOccupied(mv, hist[i].c) /\ RsOccupied(rv, hist[i].c)
    /\ \A p \in Offered : p.pre => p.cost = 0 /\ p.kind = "expand"

\* C18: every inject_at call terminates; when the frontier empties before
\* the budget is used up the call returns having deposited fewer than n
\* voxels.
C18_Terminates ==
    /\ (pc = "loop") ~> (pc = "idle")
    /\ [](pc = "idle" /\ call.calls >= 1 /\ n > 0 =>
              /\ Len(inserted) < call.n
              /\ Len(inserted) = call.n - n
              /\ candidates = EmptyBag)

\* a call has returned with budget left after it discarded depth-0 entries
C18_Witness ==
    /\ pc = "idle" /\ call.calls >= 1 /\ n > 0
    /\ Len(inserted) >= 5
    /\ \E p \in Passes : p.kind = "depth0"

\* the step is a pass that popped a coordinate visited before in this call
RevisitStep ==
    \E p \in BagToSet(pops') :
        p.kind = "revisit" /\ CopiesIn(p, pops') = CopiesIn(p, pops) + 1

\* C19: within one inject_at call each coordinate is marked visited, offered
\* to the target and expanded at most once; a pass that pops a coordinate
\* visited before calls no add and pushes no neighbour.
C19_OncePerCall ==
    [][/\ \A p \in BagToSet(pops') :
              /\ p.offered => CopiesIn(p, pops') = 1
              /\ p.offered => \A q \in BagToSet(pops') :
                                  (q.offered /\ q.pos = p.pos) => q = p
              /\ p.kind = "revisit" =>
                     \E q \in BagToSet(pops') : q.offered /\ q.pos = p.pos
       /\ RevisitStep =>
              /\ mv' = mv /\ rv' = rv /\ visited' = visited /\ n' = n
              /\ \E item \in BagToSet(candidates) :
                     candidates' = candidates (-) SetToBag({item})]_vars

\* the second copy of a frontier entry was popped after the first was expanded
C19_Witness ==
    /\ pc = "loop"
    /\ \E p \in Passes : \E q \in Passes :
           /\ p.kind = "revisit" /\ q.kind = "expand"
           /\ q.pos = p.pos

\* ------------------------------------------------------ toolpath properties
LastLine == lines[Len(lines)]

\* C20: a linear move whose target extrusion length is <= the tracked one
\* sets the position to the target and does nothing else (no inject_at call,
\* store and tracked extrusion length unchanged), a positioning move changes
\* only the position, and the tracked extrusion length never decreases.
C20_TravelMoves ==
    [][/\ ge' >= ge
       /\ Len(lines') = Len(lines) + 1 =>
              LET l == lines'[Len(lines')] IN
              (l.major = 0 \/ (l.major = 1 /\ DstE(ge, l) <= ge)) =>
                  /\ gpos' = Dst(gpos, l)
                  /\ ge' = ge
                  /\ mv' = mv /\ rv' = rv
                  /\ call' = call /\ pc' = "idle" /\ candidates' = candidates
                  /\ seg' = seg /\ seg.phase = "none"]_vars

\* after an extruding move a linear move with a smaller E moved the position
C20_Witness ==
    /\ Len(lines) >= 2
    /\ LastLine.major = 1
    /\ LastLine.e # {} /\ \A v \in LastLine.e : v < ge
    /\ LastLine.x # {} /\ gpos[1] \in LastLine.x /\ gpos[1] # 0
    /\ seg.phase = "none" /\ pc = "idle"
    /\ VoxelBlocks(variant, Target) > 0

RECURSIVE SeqSum(_)
SeqSum(q) == IF q = << >> THEN 0 ELSE Head(q) + SeqSum(Tail(q))

\* C21: over an extruding move the budgets handed to inject_at (the share
\* floor(total * step_size / len) on every pass of the loop, then the rest
\* in the last call) sum to the total floor((dst_e - e) * K), and the rest
\* never goes below zero: `blocks -= blocks_per_step` never underflows.
C21_BudgetSum ==
    /\ seg.phase # "underflow"
    /\ seg.phase \in {"steps", "final"} =>
           /\ seg.total = TotalBlocks(seg.dst_e - ge)
           /\ seg.blocks >= 0
           /\ \A i \in 1..Len(seg.given) :
                  (i < Len(seg.given) \/ seg.phase = "steps") =>
                      seg.given[i] = BlocksPerStep(seg.total,
                                                   Magnitude(VSub(seg.dst, gpos)))
    /\ seg.phase = "steps" => SeqSum(seg.given) + seg.blocks = seg.total
    /\ seg.phase = "final" => SeqSum(seg.given) = seg.total

\* the coordinates added so far that start a maximal contiguous z-run
RunStarts == {c \in Added : <<c[1], c[2], c[3] - 1>> \notin Added}

\* C22: in the interval-set store every range lies in one column with
\* start.z < end.z (the assert_eq of to_model holds), ranges of different
\* columns are never merged and z-adjacent ranges of one column are: each
\* range is one maximal contiguous z-run of the added coordinates, and
\* ranges() is the number of these runs.
C22_RangeSetRuns ==
    /\ RsToModelAssertOk(rv)
    /\ \A r \in rv.ranges :
           /\ r.start[1] = r.end[1] /\ r.start[2] = r.end[2]
           /\ r.start[3] < r.end[3]
           /\ \A z \in r.start[3]..(r.end[3] - 1) :
                  <<r.start[1], r.start[2], z>> \in Added
           /\ r.start \in RunStarts
           /\ r.end \notin Added
    /\ RsRanges(rv) = Cardinality(RunStarts)

\* two ranges joined by the add between them, next to a range of another column
C22_Witness ==
    /\ Len(hist) >= 4
    /\ hist[Len(hist)].c = <<0, 0, 1>> /\ hist[Len(hist)].retR
    /\ rv.ranges = {[start |-> <<0, 0, 0>>, end |-> <<0, 0, 3>>],
                    [start |-> <<1, 0 - 1, 0>>, end |-> <<1, 0 - 1, 1>>]}
    /\ \E i \in 1..(Len(hist) - 1) : hist[i].c = <<0, 0, 2>> /\ ~hist[i].preR
           /\ \A j \in 1..i : hist[j].c # <<0, 0, 1>>

\* the runs of a column of store s, none when the column has no entry
RunsOf(s, key) == IF key \in DOMAIN s.ranges THEN s.ranges[key] ELSE << >>

\* new is old with exactly one run grown by the cell z: at its start when
\* run.start = z + 1, else at its end when run.end = z
ExtendsOne(old, new, z) ==
    /\ Len(new) = Len(old)
    /\ \E i \in 1..Len(old) :
           /\ \A j \in 1..Len(old) : j # i => new[j] = old[j]
           /\ \/ old[i].start = z + 1 /\ new[i] = [start |-> z, end |-> old[i].end]
              \/ /\ old[i].start # z + 1 /\ old[i].end = z
                 /\ new[i] = [start |-> old[i].start, end |-> z + 1]

\* new is old with the one run z..z+1 put in
InsertsOne(old, new, z) ==
    /\ Len(new) = Len(old) + 1
    /\ \E idx \in 1..Len(new) :
           /\ new[idx] = [start |-> z, end |-> z + 1]
           /\ \A j \in 1..Len(new) :
                  /\ j < idx => new[j] = old[j]
                  /\ j > idx => new[j] = old[j - 1]

\* C23: add on the run-length store never merges two runs. An add that
\* returns true either extends exactly one run by one cell (at its start when
\* run.start = z + 1, else at its end when run.end = z) and leaves ranges()
\* as it was, or inserts the one new run z..z+1 and raises ranges() by 1; an
\* add that returns false changes nothing; ranges() never decreases, so two
\* runs that have become adjacent stay two runs.
C23_NoMerge ==
    [][hist' # hist =>
          LET h == hist'[Len(hist')]
              key == <<h.c[1], h.c[2]>>
              old == RunsOf(mv, key)
              new == RunsOf(mv', key)
          IN /\ \A k \in DOMAIN mv.ranges : k # key => mv'.ranges[k] = mv.ranges[k]
             /\ DOMAIN mv'.ranges = DOMAIN mv.ranges \cup {key}
             /\ MonoRanges(mv') >= MonoRanges(mv)
             /\ ~h.retM => new = old
             /\ h.retM =>
                    \/ ExtendsOne(old, new, h.c[3]) /\ MonoRanges(mv') = MonoRanges(mv)
                    \/ InsertsOne(old, new, h.c[3])
                           /\ MonoRanges(mv') = MonoRanges(mv) + 1]_vars

\* the last add filled the gap between two runs, which are now adjacent and
\* still two
C23_Witness ==
    /\ Len(hist) >= 3
    /\ hist[Len(hist)].retM /\ ~hist[Len(hist)].preM
    /\ <<0, 0>> \in DOMAIN mv.ranges
    /\ \E i, j \in 1..Len(Runs(<<0, 0>>)) :
           /\ i # j
           /\ Runs(<<0, 0>>)[i].end = Runs(<<0, 0>>)[j].start
           /\ hist[Len(hist)].c[3] \in {Runs(<<0, 0>>)[i].end - 1, Runs(<<0, 0>>)[j].start}

\* the vertices of m are pairwise distinct and every index of a face of m is
\* below their number
WellIndexed(m) ==
    /\ \A p, q \in 1..Len(m.vertices) : m.vertices[p] = m.vertices[q] => p = q
    /\ \A f \in 1..Len(m.faces) : \A i \in 1..4 :
           m.faces[f][i] >= 0 /\ m.faces[f][i] < Len(m.vertices)

\* C24: in a Model built by add_face calls the vertices are pairwise
\* distinct and every index of a face is below the number of vertices; an
\* add_face call keeps the vertices and faces it found at their indices,
\* and the face it adds names its four corners, a corner that was there
\* before by the index it had.
C24_VertexIndices ==
    [][modelM' # modelM =>
          /\ WellIndexed(modelM')
          /\ Len(modelM'.faces) = Len(modelM.faces) + 1
          /\ SubSeq(modelM'.faces, 1, Len(modelM.faces)) = modelM.faces
          /\ Len(modelM'.vertices) >= Len(modelM.vertices)
          /\ SubSeq(modelM'.vertices, 1, Len(modelM.vertices)) = modelM.vertices
          /\ \E coord \in FaceCoords, dir \in FaceDirs :
                 \A i \in 1..4 :
                     LET idx == modelM'.faces[Len(modelM'.faces)][i]
                         corner == FaceCorners(coord, dir)[i]
                     IN /\ modelM'.vertices[idx + 1] = corner
                        /\ \A p \in 1..Len(modelM.vertices) :
                               modelM.vertices[p] = corner => idx = p - 1]_vars

\* two faces that share an edge: the second reuses two indices of the first
\* and adds two vertices
C24_Witness ==
    /\ Len(modelM.faces) = 2
    /\ Len(modelM.vertices) = 6
    /\ Cardinality({modelM.faces[1][i] : i \in 1..4}
                       \cap {modelM.faces[2][i] : i \in 1..4}) = 2

====
